---- MODULE Spec2Model ----
(***************************************************************************)
(* Model of src/features/pipingExample.ts: manualBackpressure, a Readable  *)
(* that pushes the input in chunks, a slow Writable with a high water mark *)
(* of 2 bytes, and the pause / drain / resume wiring between them.         *)
(*                                                                         *)
(* JavaScript runs every callback to completion, so the model has one      *)
(* action per callback of the event loop (a process.nextTick task or the   *)
(* 10 ms write timer), except that the two synchronous loops of the run    *)
(* (the for-loop of read() and the flow loop that emits 'data') are taken  *)
(* one iteration at a time; while pc is not "idle" no other callback runs. *)
(*                                                                         *)
(* Strings are sequences of UTF-16 code units.  The alphabet has two ASCII *)
(* letters, a high and a low surrogate, and U+FFFD:                        *)
(*    "a", "b"  one byte each in UTF-8                                     *)
(*    "H", "L"  the two halves of a surrogate pair                         *)
(*    "R"       U+FFFD, three bytes                                        *)
(* A Buffer is the sequence of the scalar values it encodes: "a", "b",     *)
(* "R", and "P" for the astral character written H L (four bytes).         *)
(***************************************************************************)
EXTENDS Integers, Sequences, FiniteSets, TLC

\* ---------------------------------------------------------------- bounds
MaxLen == 3         \* longest input, in code units
MaxChunk == 3       \* largest chunk size passed
MaxNegChunk == 1    \* the smallest chunk size passed is -MaxNegChunk
MaxCursorDrop == 3  \* the cursor i stops moving at -MaxCursorDrop (-2^53 in a double)
MaxFail == 3         \* a failing consumer fails on one of its first MaxFail writes
MaxLenAgain == 4     \* longest input of a run of two calls
MaxLenUp == 3        \* longest input of pipeToUppercase
MaxReq == 4          \* number of requests the server is sent
MaxStreamCalls == 6  \* number of calls of streamExample
MaxWorkers == 2      \* number of calls of runInThreadPool
MaxNumber == 5       \* largest of the small numbers asked of GET /threadpool
MaxChildren == 2     \* number of calls of forkNodeScript
MaxMessages == 2     \* number of messages a child sends
MaxDepth == 12       \* deepest recursion of compute the worker's stack holds (scaled down)

\* ------------------------------------------------------ program constants
HighWaterMark == 2      \* highWaterMark: 2
DefaultChunkSize == 2   \* chunkSize = 2
DefaultNumber == 10     \* parseInt(...) || 10

Alphabet == {"a", "b", "H", "L", "R"}

StringsOver(A, n) == UNION {[1..k -> A] : k \in 0..n}

Strings(n) == StringsOver(Alphabet, n)

Min(x, y) == IF x < y THEN x ELSE y
Max(x, y) == IF x > y THEN x ELSE y

\* ------------------------------------------------------------ conversions

SliceInclusive(s, start, end) ==
    LET from == IF start < 0 THEN Max(Len(s) + start, 0) ELSE Min(start, Len(s))
        to   == IF end < 0 THEN Max(Len(s) + end + 1, 0) ELSE Min(end + 1, Len(s))
    IN  IF from >= to THEN <<>> ELSE SubSeq(s, from + 1, to)

\* String.prototype.slice(start, end) on a sequence of code units.
Slice(s, start, end) ==
    LET from == IF start < 0 THEN Max(Len(s) + start, 0) ELSE Min(start, Len(s))
        to   == IF end < 0 THEN Max(Len(s) + end, 0) ELSE Min(end, Len(s))
    IN  IF from >= to THEN <<>> ELSE SubSeq(s, from + 1, to)

\* Buffer.from(string, 'utf8'), done by push(string) on a Readable without
\* an encoding: a well-formed pair H L is one scalar, a lone surrogate is
\* replaced by U+FFFD.
RECURSIVE Encode(_)
Encode(s) ==
    IF s = <<>> THEN <<>>
    ELSE IF s[1] = "H" /\ Len(s) >= 2 /\ s[2] = "L"
         THEN <<"P">> \o Encode(SubSeq(s, 3, Len(s)))
    ELSE IF s[1] \in {"H", "L"}
         THEN <<"R">> \o Encode(Tail(s))
    ELSE <<s[1]>> \o Encode(Tail(s))

\* chunk.toString(): UTF-8 decoding of a Buffer back to code units.
RECURSIVE Decode(_)
Decode(b) ==
    IF b = <<>> THEN <<>>
    ELSE IF b[1] = "P" THEN <<"H", "L">> \o Decode(Tail(b))
    ELSE <<b[1]>> \o Decode(Tail(b))

ScalarBytes(c) == IF c = "P" THEN 4 ELSE IF c = "R" THEN 3 ELSE 1

\* chunk.length of a Buffer, in bytes.
RECURSIVE ByteLen(_)
ByteLen(b) == IF b = <<>> THEN 0 ELSE ScalarBytes(b[1]) + ByteLen(Tail(b))

UpperOfSwapCase(c) ==
    IF c = "a" THEN <<"A">> ELSE IF c = "A" THEN <<"a">>
    ELSE IF c = "sz" THEN <<"S", "S">> ELSE <<c>>

\* The lower-case letters of the texts below and their upper case.
LowerLetters == <<"a", "d", "e", "m", "o", "r", "s", "t">>
UpperLetters == <<"A", "D", "E", "M", "O", "R", "S", "T">>

\* The upper-case mapping of one code unit: a lower-case letter has a
\* one-letter upper case, "sz" stands for U+00DF, whose upper case is "SS";
\* upper case letters, the blank, surrogates and U+FFFD map to themselves.
UpperOf(c) ==
    IF \E k \in 1..Len(LowerLetters) : LowerLetters[k] = c
    THEN <<UpperLetters[CHOOSE k \in 1..Len(LowerLetters) : LowerLetters[k] = c]>>
    ELSE IF c = "sz" THEN <<"S", "S">> ELSE <<c>>

\* String.prototype.toUpperCase()
RECURSIVE ToUpper(_)
ToUpper(s) == IF s = <<>> THEN <<>> ELSE UpperOf(s[1]) \o ToUpper(Tail(s))

RECURSIVE SumBytes(_)
SumBytes(q) == IF q = <<>> THEN 0 ELSE ByteLen(q[1]) + SumBytes(Tail(q))

RECURSIVE Flatten(_)
Flatten(q) == IF q = <<>> THEN <<>> ELSE q[1] \o Flatten(Tail(q))

IsPrefix(p, s) == Len(p) <= Len(s) /\ SubSeq(s, 1, Len(p)) = p

\* ------------------------------------------------------------------ state
VARIABLES
    input,            \* the text passed in
    reqChunk,         \* the chunkSize argument: <<>> (undefined) or <<n>>
    chunkSize,        \* the parameter after its default has been applied
    failAt,           \* 0, or the number of the write whose callback gets an error
    pc,               \* "idle", "read", "flowR" (flow from resume_), "flowE" (from emitReadable_)
    i,                \* the cursor of the for-loop in read()
    ticks,            \* the process.nextTick queue
    rbuf,             \* readable: the buffered chunks (Buffers)
    rEnded,           \* readable: push(null) was called
    flowing,          \* readable: state.flowing
    resumeScheduled,  \* readable: state.resumeScheduled
    emittedReadable,  \* readable: state.emittedReadable
    endEmitted,       \* readable: 'end' was emitted
    wlen,             \* writable: state.length, bytes accepted and not yet written
    needDrain,        \* writable: state.needDrain
    inflight,         \* writable: the chunk whose write timer is running, <<>> or <<chunk>>
    wbuffered,        \* writable: chunks accepted while another one is being written
    ending,           \* writable: end() was called
    finished,         \* writable: 'finish' was emitted
    destroyed,        \* writable: destroyed by an error
    errorEmitted,     \* writable: 'error' was emitted
    drainListeners,   \* writable: once('drain') listeners registered
    completed,        \* number of write callbacks that have been invoked
    result,           \* let result
    pauses,           \* let pauses
    canContinue,      \* what the last writable.write returned: <<>> or <<b>>
    offered,          \* the chunks passed to writable.write, in order
    promise,          \* "pending", "resolved", "rejected"
    settled,          \* <<>> or <<[output |-> .., pauses |-> ..]>>, what resolve was given
    prev,             \* <<>>, or <<r>> with r what an earlier call was given and resolved with
    listeners,        \* emitter: per event name, the once-listeners in registration order
    events,           \* emitter: the events emitted so far, [event |-> .., payload |-> ..]
    requests,         \* server: per request, its route, the length of events when it
                      \* arrived, and the bodies passed to res.send
    workers,          \* per call of runInThreadPool: its worker and its promise
    children          \* per call of forkNodeScript: its child and its promise

vars == <<input, reqChunk, chunkSize, failAt, pc, i, ticks, rbuf, rEnded, flowing,
          resumeScheduled, emittedReadable, endEmitted, wlen, needDrain, inflight,
          wbuffered, ending, finished, destroyed, errorEmitted, drainListeners,
          completed, result, pauses, canContinue, offered, promise, settled,
          prev, listeners, events, requests, workers, children>>

readableVars == <<rbuf, rEnded, flowing, resumeScheduled, emittedReadable, endEmitted>>
writableVars == <<wlen, needDrain, inflight, wbuffered, ending, finished, destroyed,
                  errorEmitted, drainListeners, completed>>
callVars == <<input, reqChunk, chunkSize, failAt>>
procVars == <<workers, children>>
serverVars == <<listeners, events, requests, procVars>>
outerVars == <<callVars, prev, serverVars>>

\* export const emitter = new MyEmitter(): no listener, nothing emitted, and
\* no request served yet.
ServerIdle ==
    /\ listeners = [ping |-> <<>>, fileUploaded |-> <<>>]
    /\ events = <<>>
    /\ requests = <<>>
    /\ workers = <<>>
    /\ children = <<>>

\* chunkSize = 2 in the parameter list: the default applies to undefined only.
DefaultParam(req) == IF req = <<>> THEN DefaultChunkSize ELSE req[1]

ChunkArgs == {<<>>} \cup {<<n>> : n \in (0 - MaxNegChunk)..MaxChunk}

\* The state when manualBackpressure returns its promise: the executor has
\* built both streams and registered the listeners; on('data') has put the
\* readable in flowing mode and scheduled resume_ on the next tick.
Started ==
    /\ pc = "idle"
    /\ i = 0
    /\ ticks = <<"resume_">>
    /\ rbuf = <<>>
    /\ rEnded = FALSE
    /\ flowing = TRUE
    /\ resumeScheduled = TRUE
    /\ emittedReadable = FALSE
    /\ endEmitted = FALSE
    /\ wlen = 0
    /\ needDrain = FALSE
    /\ inflight = <<>>
    /\ wbuffered = <<>>
    /\ ending = FALSE
    /\ finished = FALSE
    /\ destroyed = FALSE
    /\ errorEmitted = FALSE
    /\ drainListeners = 0
    /\ completed = 0
    /\ result = <<>>
    /\ pauses = 0
    /\ canContinue = <<>>
    /\ offered = <<>>
    /\ promise = "pending"
    /\ settled = <<>>

\* A first call, with its arguments drawn from the given sets.
InitOn(inputs, args, fails) ==
    /\ input \in inputs
    /\ reqChunk \in args
    /\ chunkSize = DefaultParam(reqChunk)
    /\ failAt \in fails
    /\ prev = <<>>
    /\ ServerIdle
    /\ Started

InitCall(fails) == InitOn(Strings(MaxLen), ChunkArgs, fails)

Init == InitCall({0})

\* ------------------------------------------------------- stream operators

\* Variants of the operators below, each changed the way a slip in the code
\* would change it; the properties further down are checked against them.
WriteRetInclusive(len, dead) == len <= HighWaterMark /\ ~dead
WriteRetEarly(len, dead) == len < HighWaterMark - 1 /\ ~dead
WriteRetDefaultMark(len, dead) == len < 16384 /\ ~dead
WriteRetOffMark(len, dead) == len # HighWaterMark /\ ~dead

\* writable.write's return value: state.length < state.highWaterMark after
\* the chunk's bytes were added, and false on a destroyed stream.
WriteRet(len, dead) == len < HighWaterMark /\ ~dead

NeedDrainOnDestroyed(len, nd, end, dead) == ~end /\ len = 0 /\ nd
NeedDrainNever(len, nd, end, dead) == FALSE

\* afterWrite: 'drain' is emitted when a write returned false earlier, the
\* buffer is empty again and the stream is neither ending nor destroyed.
NeedDrainNow(len, nd, end, dead) == ~end /\ ~dead /\ len = 0 /\ nd

NeedFinishBeforeEnd(end, len, fl, buf, fin, dead) ==
    len = 0 /\ fl = <<>> /\ buf = <<>> /\ ~fin /\ ~dead

\* needFinish: end() was called and nothing is left to write.
NeedFinish(end, len, fl, buf, fin, dead) ==
    end /\ len = 0 /\ fl = <<>> /\ buf = <<>> /\ ~fin /\ ~dead

\* writable.on('finish', () => resolve({ output: result, pauses }))
OnFinish(p, v, out, n) ==
    IF p = "pending" THEN <<"resolved", <<[output |-> out, pauses |-> n]>> >> ELSE <<p, v>>

OnErrorUnheard(p) == p

\* writable.on('error', reject)
OnError(p) == IF p = "pending" THEN "rejected" ELSE p

PausedAfterNoPause(ret, fl) == fl

\* readable.pause() in the 'data' handler, when write returned false.
PausedAfter(ret, fl) == IF ret THEN fl ELSE FALSE

PausesAfterEveryWrite(ret, n) == n + 1

\* pauses++ in the 'data' handler, when write returned false.
PausesAfter(ret, n) == IF ret THEN n ELSE n + 1

EndReadableNever(q, emitted) == q

\* endReadable: 'end' is emitted on a later tick, unless it already was.
EndReadable(q, emitted) == IF emitted THEN q ELSE Append(q, "endReadableNT")

\* ------------------------------------------------------------- the ticks

\* resume_: the first one calls read(0), which calls _read once (the
\* readable has not ended); the later ones go straight to flow().
ResumeTick ==
    /\ pc = "idle"
    /\ ticks # <<>> /\ Head(ticks) = "resume_"
    /\ ticks' = Tail(ticks)
    /\ resumeScheduled' = FALSE
    /\ IF rEnded THEN pc' = "flowR" /\ i' = i
                 ELSE pc' = "read" /\ i' = 0
    /\ UNCHANGED <<outerVars, rbuf, rEnded, flowing, emittedReadable, endEmitted,
                   writableVars, result, pauses, canContinue, offered, promise, settled>>

\* One iteration of   for (let i = 0; i < input.length; i += chunkSize)
\*                        this.push(input.slice(i, i + chunkSize));
\* push turns the string into a Buffer; an empty chunk is not buffered.  The
\* first buffered chunk schedules emitReadable_.  Below -MaxCursorDrop the sum
\* i + chunkSize is no longer representable and i stays where it is.
ReadPush ==
    /\ pc = "read"
    /\ i < Len(input)
    /\ LET chunk == Encode(Slice(input, i, i + chunkSize))
       IN  IF chunk = <<>>
           THEN UNCHANGED <<rbuf, emittedReadable, ticks>>
           ELSE /\ rbuf' = Append(rbuf, chunk)
                /\ emittedReadable' = TRUE
                /\ ticks' = IF emittedReadable THEN ticks
                            ELSE Append(ticks, "emitReadable_")
    /\ i' = Max(i + chunkSize, 0 - MaxCursorDrop)
    /\ UNCHANGED <<outerVars, pc, rEnded, flowing, resumeScheduled, endEmitted,
                   writableVars, result, pauses, canContinue, offered, promise, settled>>

\* The loop is over: this.push(null), then read(0) returns and resume_ goes
\* on to flow().
ReadEof ==
    /\ pc = "read"
    /\ i >= Len(input)
    /\ rEnded' = TRUE
    /\ emittedReadable' = TRUE
    /\ ticks' = IF emittedReadable THEN ticks ELSE Append(ticks, "emitReadable_")
    /\ pc' = "flowR"
    /\ UNCHANGED <<outerVars, i, rbuf, flowing, resumeScheduled, endEmitted,
                   writableVars, result, pauses, canContinue, offered, promise, settled>>

\* One iteration of flow(): read() takes the first buffered chunk (reading
\* the last one schedules 'end') and emits 'data'; the handler is
\*     const canContinue = writable.write(chunk);
\*     if (!canContinue) { pauses++; readable.pause();
\*                         writable.once('drain', () => readable.resume()); }
\* write() adds the chunk's bytes to state.length, starts _write (the 10 ms
\* timer) when no write is in progress and queues the chunk otherwise.
FlowData ==
    /\ pc \in {"flowR", "flowE"}
    /\ flowing
    /\ rbuf # <<>>
    /\ LET chunk == Head(rbuf)
           len   == IF destroyed THEN wlen ELSE wlen + ByteLen(chunk)
           ret   == WriteRet(len, destroyed)
       IN  /\ rbuf' = Tail(rbuf)
           /\ ticks' = IF Tail(rbuf) = <<>> /\ rEnded
                       THEN EndReadable(ticks, endEmitted) ELSE ticks
           /\ offered' = Append(offered, chunk)
           /\ canContinue' = <<ret>>
           /\ wlen' = len
           /\ IF destroyed
              THEN UNCHANGED <<needDrain, inflight, wbuffered>>
              ELSE /\ needDrain' = (needDrain \/ ~(len < HighWaterMark))
                   /\ IF inflight = <<>>
                      THEN inflight' = <<chunk>> /\ wbuffered' = wbuffered
                      ELSE inflight' = inflight /\ wbuffered' = Append(wbuffered, chunk)
           /\ flowing' = PausedAfter(ret, flowing)
           /\ pauses' = PausesAfter(ret, pauses)
           /\ drainListeners' = IF ret THEN drainListeners ELSE drainListeners + 1
    /\ UNCHANGED <<outerVars, pc, i, rEnded, resumeScheduled, emittedReadable, endEmitted,
                   ending, finished, destroyed, errorEmitted, completed, result,
                   promise, settled>>

\* flow() returns: the readable was paused, or read() found the buffer
\* empty and returned null, which schedules 'end' once more; resume_ then
\* calls read(0), which does the same, when the stream is still flowing.
FlowExit ==
    /\ pc \in {"flowR", "flowE"}
    /\ ~flowing \/ rbuf = <<>>
    /\ ticks' = IF flowing /\ rEnded
                THEN IF pc = "flowR"
                     THEN EndReadable(EndReadable(ticks, endEmitted), endEmitted)
                     ELSE EndReadable(ticks, endEmitted)
                ELSE ticks
    /\ pc' = "idle"
    /\ UNCHANGED <<outerVars, i, readableVars, writableVars, result, pauses,
                   canContinue, offered, promise, settled>>

\* emitReadable_: emits 'readable' (nobody listens) and calls flow().
EmitReadableTick ==
    /\ pc = "idle"
    /\ ticks # <<>> /\ Head(ticks) = "emitReadable_"
    /\ ticks' = Tail(ticks)
    /\ emittedReadable' = FALSE
    /\ pc' = "flowE"
    /\ UNCHANGED <<outerVars, i, rbuf, rEnded, flowing, resumeScheduled, endEmitted,
                   writableVars, result, pauses, canContinue, offered, promise, settled>>

\* endReadableNT: emits 'end' once the buffer is empty, paused or not;
\*     readable.on('end', () => writable.end());
\* end() marks the writable as ending and, when nothing is left to write,
\* schedules 'finish' on the next tick.
EndReadableTick ==
    /\ pc = "idle"
    /\ ticks # <<>> /\ Head(ticks) = "endReadableNT"
    /\ IF ~endEmitted /\ rbuf = <<>>
       THEN /\ endEmitted' = TRUE
            /\ IF ~destroyed /\ ~ending
               THEN /\ ending' = TRUE
                    /\ ticks' = IF NeedFinish(TRUE, wlen, inflight, wbuffered, finished, destroyed)
                                THEN Append(Tail(ticks), "finish") ELSE Tail(ticks)
               ELSE ending' = ending /\ ticks' = Tail(ticks)
       ELSE /\ ticks' = Tail(ticks)
            /\ UNCHANGED <<endEmitted, ending>>
    /\ UNCHANGED <<outerVars, pc, i, rbuf, rEnded, flowing, resumeScheduled, emittedReadable,
                   wlen, needDrain, inflight, wbuffered, finished, destroyed, errorEmitted,
                   drainListeners, completed, result, pauses, canContinue, offered,
                   promise, settled>>

\* The 'finish' scheduled by end(): emits it, and the listener resolves.
FinishTick ==
    /\ pc = "idle"
    /\ ticks # <<>> /\ Head(ticks) = "finish"
    /\ ticks' = Tail(ticks)
    /\ IF NeedFinish(ending, wlen, inflight, wbuffered, finished, destroyed)
       THEN /\ finished' = TRUE
            /\ promise' = OnFinish(promise, settled, result, pauses)[1]
            /\ settled' = OnFinish(promise, settled, result, pauses)[2]
       ELSE UNCHANGED <<finished, promise, settled>>
    /\ UNCHANGED <<outerVars, pc, i, readableVars, wlen, needDrain, inflight, wbuffered,
                   ending, destroyed, errorEmitted, drainListeners, completed, result,
                   pauses, canContinue, offered>>

\* ----------------------------------------------------------- the timer

\* The 10 ms timer of the chunk being written fires (timers run when the
\* tick queue is empty):
\*     result += chunk.toString(); callback();
\* onwrite takes the chunk's bytes off state.length and starts the next
\* queued chunk; afterWrite emits 'drain', whose listener resumes the
\* readable, and 'finish' when the stream is ending and empty.
\* A consumer that fails on this write (failAt) calls callback(err) instead
\* of appending: onwrite drops the queued chunks, destroys the stream and
\* schedules 'error'; neither 'drain' nor 'finish' follows.
WriteDone ==
    /\ pc = "idle"
    /\ ticks = <<>>
    /\ inflight # <<>>
    /\ LET chunk == inflight[1]
           er    == failAt = completed + 1
           dead  == destroyed \/ er
           len   == IF er THEN 0 ELSE wlen - ByteLen(chunk)
           next  == IF er \/ wbuffered = <<>> THEN <<>> ELSE <<Head(wbuffered)>>
           rest  == IF er \/ wbuffered = <<>> THEN <<>> ELSE Tail(wbuffered)
           out   == IF er THEN result ELSE result \o Decode(chunk)
           drain == NeedDrainNow(len, needDrain, ending, dead)
           fin   == NeedFinish(ending, len, next, rest, finished, dead)
           q     == IF er THEN Append(ticks, "errorNT") ELSE ticks
       IN  /\ result' = out
           /\ completed' = completed + 1
           /\ wlen' = len
           /\ inflight' = next
           /\ wbuffered' = rest
           /\ destroyed' = dead
           /\ IF drain
              THEN /\ needDrain' = FALSE
                   /\ drainListeners' = 0
                   /\ IF drainListeners > 0
                      THEN /\ flowing' = TRUE
                           /\ resumeScheduled' = TRUE
                           /\ ticks' = IF resumeScheduled THEN q
                                       ELSE Append(q, "resume_")
                      ELSE /\ ticks' = q
                           /\ UNCHANGED <<flowing, resumeScheduled>>
              ELSE /\ ticks' = q
                   /\ UNCHANGED <<needDrain, drainListeners, flowing, resumeScheduled>>
           /\ IF fin
              THEN /\ finished' = TRUE
                   /\ promise' = OnFinish(promise, settled, out, pauses)[1]
                   /\ settled' = OnFinish(promise, settled, out, pauses)[2]
              ELSE UNCHANGED <<finished, promise, settled>>
    /\ UNCHANGED <<outerVars, pc, i, rbuf, rEnded, emittedReadable, endEmitted, ending,
                   errorEmitted, pauses, canContinue, offered>>

\* emitErrorCloseNT, scheduled by the destroy of a failed write: emits
\* 'error', and the listener rejects.
ErrorTick ==
    /\ pc = "idle"
    /\ ticks # <<>> /\ Head(ticks) = "errorNT"
    /\ ticks' = Tail(ticks)
    /\ errorEmitted' = TRUE
    /\ promise' = OnError(promise)
    /\ UNCHANGED <<outerVars, pc, i, readableVars, wlen, needDrain, inflight, wbuffered,
                   ending, finished, destroyed, drainListeners, completed, result,
                   pauses, canContinue, offered, settled>>

Next ==
    \/ ResumeTick
    \/ ReadPush
    \/ ReadEof
    \/ FlowData
    \/ FlowExit
    \/ EmitReadableTick
    \/ EndReadableTick
    \/ FinishTick
    \/ WriteDone

Spec == Init /\ [][Next]_vars

\* The same run with a consumer that fails on one of its writes.
InitFail == InitCall(1..MaxFail)

NextFail == Next \/ ErrorTick

SpecFail == InitFail /\ [][NextFail]_vars

\* Runs with a chunk size of at least 1 (or the default), under the
\* event loop's promise that a pending tick or timer is run in the end.
InitLive == InitOn(Strings(MaxLen), {<<>>} \cup {<<n>> : n \in 1..MaxChunk}, {0})

SpecLive == InitLive /\ [][Next]_vars /\ WF_vars(Next)

\* -------------------------------------------------------- pipeToUppercase

\* The inputs of pipeToUppercase: letters of either case, U+00DF and the
\* two halves of a surrogate pair.
UpAlphabet == {"a", "A", "sz", "H", "L"}

UpInputs == StringsOver(UpAlphabet, MaxLenUp)

\* The variables pipeToUppercase has no use for.
manualVars == <<reqChunk, chunkSize, i, ticks, flowing, resumeScheduled, emittedReadable,
                wlen, needDrain, inflight, wbuffered, drainListeners, completed, pauses,
                canContinue, offered>>

flowVars == <<flowing, resumeScheduled, emittedReadable>>
writeVars == <<wlen, needDrain, inflight, wbuffered, drainListeners, completed>>

\* No call of manualBackpressure is under way.
ManualIdle ==
    /\ reqChunk = <<>> /\ chunkSize = 0 /\ i = 0 /\ ticks = <<>>
    /\ flowing = FALSE /\ resumeScheduled = FALSE /\ emittedReadable = FALSE
    /\ wlen = 0 /\ needDrain = FALSE /\ inflight = <<>> /\ wbuffered = <<>>
    /\ drainListeners = 0 /\ completed = 0 /\ pauses = 0
    /\ canContinue = <<>> /\ offered = <<>>

\* The state when pipeToUppercase returns its promise: the three streams are
\* built and piped, nothing has flowed yet.  pc is the source's position
\* ("from", "piped", "ended"); rbuf, rEnded and endEmitted are the readable
\* side of the transform, destroyed and errorEmitted its error state;
\* ending, finished and result belong to the final writable.
UpStarted ==
    /\ pc = "from"
    /\ rbuf = <<>>
    /\ rEnded = FALSE
    /\ endEmitted = FALSE
    /\ ending = FALSE
    /\ finished = FALSE
    /\ destroyed = FALSE
    /\ errorEmitted = FALSE
    /\ result = <<>>
    /\ promise = "pending"
    /\ settled = <<>>

InitUpOn(fails) ==
    /\ input \in UpInputs
    /\ failAt \in fails
    /\ prev = <<>>
    /\ ServerIdle
    /\ UpStarted
    /\ ManualIdle

InitUp == InitUpOn({0})

TransformedUnchanged(chunk) == Encode(Decode(chunk))

\* The chunk the transform pushes for a chunk written to it:
\* callback(null, chunk.toString().toUpperCase()), the string encoded again.
Transformed(chunk) == Encode(ToUpper(Decode(chunk)))

\* Readable.from([input]) yields the string; pipe's 'data' handler writes it
\* to the transform, which takes it as a Buffer and runs transform() at
\* once.  An empty string pushed is not buffered.  A failing transform
\* passes an error to its callback, which destroys the stream.
SourceData ==
    /\ pc = "from"
    /\ pc' = "piped"
    /\ LET pushed == Transformed(Encode(input))
       IN  IF failAt = 1
           THEN destroyed' = TRUE /\ UNCHANGED rbuf
           ELSE /\ rbuf' = IF pushed = <<>> THEN rbuf ELSE Append(rbuf, pushed)
                /\ UNCHANGED destroyed
    /\ UNCHANGED <<input, failAt, prev, serverVars, manualVars, rEnded, endEmitted, ending,
                   finished, errorEmitted, result, promise, settled>>

\* The source's 'end': pipe calls transform.end(), and the transform, with
\* nothing left to transform, pushes null.
SourceEnd ==
    /\ pc = "piped"
    /\ pc' = "ended"
    /\ rEnded' = IF destroyed THEN rEnded ELSE TRUE
    /\ UNCHANGED <<input, failAt, prev, serverVars, manualVars, rbuf, endEmitted, ending,
                   finished, destroyed, errorEmitted, result, promise, settled>>

\* The transform's 'data': pipe writes the chunk to the writable, whose
\* write() does result += chunk.toString() and calls back at once.
TransformData ==
    /\ ~destroyed
    /\ rbuf # <<>>
    /\ result' = result \o Decode(Head(rbuf))
    /\ rbuf' = Tail(rbuf)
    /\ UNCHANGED <<input, failAt, prev, serverVars, manualVars, pc, rEnded, endEmitted,
                   ending, finished, destroyed, errorEmitted, promise, settled>>

\* The transform's 'end': pipe calls writable.end().
TransformEnd ==
    /\ ~destroyed
    /\ rEnded /\ rbuf = <<>> /\ ~endEmitted
    /\ endEmitted' = TRUE
    /\ ending' = TRUE
    /\ UNCHANGED <<input, failAt, prev, serverVars, manualVars, pc, rbuf, rEnded, finished,
                   destroyed, errorEmitted, result, promise, settled>>

\* .on('finish', () => resolve(result))
UpFinish ==
    /\ ending /\ ~finished
    /\ finished' = TRUE
    /\ promise' = IF promise = "pending" THEN "resolved" ELSE promise
    /\ settled' = IF promise = "pending" THEN <<result>> ELSE settled
    /\ UNCHANGED <<input, failAt, prev, serverVars, manualVars, pc, rbuf, rEnded, endEmitted,
                   ending, destroyed, errorEmitted, result>>

\* The destroyed transform emits 'error'.  reject listens on the writable
\* only and pipe() forwards no error, so the event has no listener besides
\* pipe's own, which unpipes the source; the promise is left as it is.
TransformErrorTick ==
    /\ destroyed /\ ~errorEmitted
    /\ errorEmitted' = TRUE
    /\ UNCHANGED <<input, failAt, prev, serverVars, manualVars, pc, rbuf, rEnded, endEmitted,
                   ending, finished, destroyed, result, promise, settled>>

\* POST /pipe/uppercase once more, with the text the first call resolved with.
UpAgain ==
    /\ promise = "resolved"
    /\ prev = <<>>
    /\ prev' = <<[input |-> input, output |-> settled[1]]>>
    /\ input' = settled[1]
    /\ pc' = "from"
    /\ rbuf' = <<>>
    /\ rEnded' = FALSE
    /\ endEmitted' = FALSE
    /\ ending' = FALSE
    /\ finished' = FALSE
    /\ destroyed' = FALSE
    /\ errorEmitted' = FALSE
    /\ result' = <<>>
    /\ promise' = "pending"
    /\ settled' = <<>>
    /\ UNCHANGED <<failAt, serverVars, manualVars>>

NextUp ==
    \/ SourceData
    \/ SourceEnd
    \/ TransformData
    \/ TransformEnd
    \/ UpFinish
    \/ UpAgain

SpecUp == InitUp /\ [][NextUp]_vars

\* The same run with a transform that may fail on its chunk.
InitUpFail == InitUpOn({0, 1})

NextUpFail == NextUp \/ TransformErrorTick

SpecUpFail == InitUpFail /\ [][NextUpFail]_vars

\* ---------------------------------------------------------- streamExample

\* Readable.from(['Node', 'JS', ' ', 'Streams']); the letters are one-byte
\* characters, and the sizes of the chunks play no part in this pipeline.
StreamSource ==
    << <<"N", "o", "d", "e">>, <<"J", "S">>, <<" ">>, <<"S", "t", "r", "e", "a", "m", "s">> >>

\* The source yields its next string (the cursor i counts them); pipe's
\* 'data' handler writes it to the transform, which runs transform() at
\* once and pushes the upper-cased chunk.
StreamData ==
    /\ pc = "from"
    /\ i < Len(StreamSource)
    /\ i' = i + 1
    /\ pc' = IF i + 1 = Len(StreamSource) THEN "piped" ELSE "from"
    /\ rbuf' = Append(rbuf, Transformed(Encode(StreamSource[i + 1])))
    /\ UNCHANGED <<callVars, prev, serverVars, ticks, flowVars, writeVars,
                   rEnded, endEmitted, ending, finished, destroyed, errorEmitted,
                   result, promise, settled, pauses, canContinue, offered>>

\* The source's 'end': pipe calls transform.end(), which pushes null.
StreamSourceEnd == SourceEnd

\* The transform's 'data': pipe writes the chunk to the writable, whose
\* write() does result += chunk.toString() and calls back at once.
StreamWrite == TransformData

\* The transform's 'end': pipe calls writable.end().
StreamTransformEnd == TransformEnd

\* .on('finish', () => resolve(result))
StreamFinish == UpFinish

\* GET /stream once more: streamExample() is called again, after the
\* earlier call has resolved; prev keeps what the earlier calls resolved with.
StreamAgain ==
    /\ promise = "resolved"
    /\ Len(prev) + 1 < MaxStreamCalls
    /\ prev' = Append(prev, settled[1])
    /\ i' = 0
    /\ pc' = "from"
    /\ rbuf' = <<>>
    /\ rEnded' = FALSE
    /\ endEmitted' = FALSE
    /\ ending' = FALSE
    /\ finished' = FALSE
    /\ result' = <<>>
    /\ promise' = "pending"
    /\ settled' = <<>>
    /\ UNCHANGED <<callVars, serverVars, ticks, flowVars, writeVars,
                   destroyed, errorEmitted, pauses, canContinue, offered>>

InitStream ==
    /\ input = <<>>
    /\ failAt = 0
    /\ prev = <<>>
    /\ ServerIdle
    /\ UpStarted
    /\ ManualIdle

NextStream ==
    \/ StreamData
    \/ StreamSourceEnd
    \/ StreamWrite
    \/ StreamTransformEnd
    \/ StreamFinish
    \/ StreamAgain

SpecStream == InitStream /\ [][NextStream]_vars

\* ------------------------------------------------ the shared event emitter

\* file.originalname of the uploads; "none" is a request without a file.
Files == {"notify.txt", "other.txt"}

streamVars == <<input, failAt, prev, manualVars, pc, rbuf, rEnded, endEmitted, ending,
                finished, destroyed, errorEmitted, result, promise, settled>>

Range(q) == {q[k] : k \in 1..Len(q)}

\* res.send(...) of a handler or of a listener: what was sent, and the text in it.
Body(kind, text) == [kind |-> kind, text |-> text]

\* A request as it arrives at its handler.
Arrived(route) == [route |-> route, at |-> Len(events), sent |-> <<>>]

\* emitter.once(event, cb): the request's callback is added after the
\* listeners already there.
Once(ls, r) == Append(ls, r)

AfterEmitKept(ls) == ls

\* emitter.emit on once-listeners: each one is removed as it is called.
AfterEmit(ls) == <<>>

\* emitter.emit(event, payload): the callback of every listener runs and
\* sends its response.
Deliver(reqs, ls, body) ==
    [k \in 1..Len(reqs) |->
        IF k \in Range(ls) THEN [reqs[k] EXCEPT !.sent = Append(@, body)] ELSE reqs[k]]

\* POST /upload: 400 without a file; with one, emitFileUploaded(originalname)
\* and then the response of the upload itself.
Upload(f) ==
    /\ Len(requests) < MaxReq
    /\ LET r == Len(requests) + 1
           arrived == Append(requests, Arrived("upload"))
       IN  IF f = "none"
           THEN /\ requests' = [arrived EXCEPT ![r].sent = <<Body("error", "No file uploaded")>>]
                /\ UNCHANGED <<listeners, events>>
           ELSE /\ events' = Append(events, [event |-> "fileUploaded", payload |-> f])
                /\ listeners' = [listeners EXCEPT !.fileUploaded = AfterEmit(@)]
                /\ requests' =
                     [Deliver(arrived, listeners.fileUploaded, Body("message", f))
                        EXCEPT ![r].sent = <<Body("filename", f)>>]
    /\ UNCHANGED <<streamVars, procVars>>

\* GET /notify-upload: onFileUploadedOnce(filename => res.send(...)), and
\* the handler returns.
NotifyUpload ==
    /\ Len(requests) < MaxReq
    /\ requests' = Append(requests, Arrived("notify"))
    /\ listeners' = [listeners EXCEPT !.fileUploaded = Once(@, Len(requests) + 1)]
    /\ UNCHANGED <<events, streamVars, procVars>>

\* GET /event: onPingOnce(msg => res.send(...)) and then emitPing('pong!').
EventPing ==
    /\ Len(requests) < MaxReq
    /\ LET r == Len(requests) + 1
           ls == Once(listeners.ping, r)
       IN  /\ events' = Append(events, [event |-> "ping", payload |-> "pong!"])
           /\ listeners' = [listeners EXCEPT !.ping = AfterEmit(ls)]
           /\ requests' = Deliver(Append(requests, Arrived("event")), ls, Body("ping", "pong!"))
    /\ UNCHANGED <<streamVars, procVars>>

InitEmit ==
    /\ ServerIdle
    /\ input = <<>>
    /\ failAt = 0
    /\ prev = <<>>
    /\ UpStarted
    /\ ManualIdle

NextEmit ==
    \/ \E f \in Files \cup {"none"} : Upload(f)
    \/ NotifyUpload
    \/ EventPing

SpecEmit == InitEmit /\ [][NextEmit]_vars

\* -------------------------------------------------------- runInThreadPool

\* req.query.number of GET /threadpool: missing, a text without leading
\* digits, an integer (a small one, or one too large for the worker's
\* stack), or an integer followed by other text ("3px").
Queries ==
    {[kind |-> "missing", n |-> 0], [kind |-> "text", n |-> 0]}
        \cup {[kind |-> "int", n |-> n] : n \in ((0 - 1)..MaxNumber) \cup {MaxDepth + 1}}
        \cup {[kind |-> "prefixed", n |-> n] : n \in 1..2}

\* parseInt(string): <<>> is NaN.
ParseInt(q) == IF q.kind \in {"missing", "text"} THEN <<>> ELSE <<q.n>>

\* parseInt(...) || 10: the right side is taken for every falsy left side,
\* NaN and 0.
OrDefault(p) == IF p = <<>> \/ p[1] = 0 THEN DefaultNumber ELSE p[1]

\* function compute(n) of workerTask.js
RECURSIVE compute(_)
compute(n) == IF n <= 1 THEN 1 ELSE n * compute(n - 1)

\* The values a promise settles with and a response carries.
Message(n, r) == [kind |-> "message", input |-> n, result |-> r, text |-> ""]
Failure(t) == [kind |-> "error", input |-> 0, result |-> 0, text |-> t]

SettleAgain(w, outcome, v) == [w EXCEPT !.promise = outcome, !.value = <<v>>]

\* resolve(v) / reject(v) of a promise: only the first call settles it.
Settle(w, outcome, v) ==
    IF w.promise = "pending" THEN [w EXCEPT !.promise = outcome, !.value = <<v>>] ELSE w

\* GET /threadpool: the number is parsed and defaulted, runInThreadPool
\* starts a worker on it and registers 'message', 'error' and 'exit'.
Threadpool(q) ==
    /\ Len(workers) < MaxWorkers
    /\ workers' = Append(workers, [query |-> q, number |-> OrDefault(ParseInt(q)),
                                   phase |-> "started", promise |-> "pending",
                                   value |-> <<>>, code |-> 0])
    /\ UNCHANGED <<streamVars, listeners, events, requests, children>>

\* The worker runs workerTask.js: compute recurses number - 1 times, which
\* exhausts the stack beyond MaxDepth frames (a RangeError); otherwise the
\* result is posted to the parent.
WorkerRun(k) ==
    /\ workers[k].phase = "started"
    /\ workers' = [workers EXCEPT ![k].phase =
                     IF workers[k].number > MaxDepth THEN "threw" ELSE "posted"]
    /\ UNCHANGED <<streamVars, listeners, events, requests, children>>

\* worker.on('message', resolve)
WorkerMessage(k) ==
    /\ workers[k].phase = "posted"
    /\ workers' = [workers EXCEPT ![k] =
          [Settle(@, "resolved", Message(@.number, compute(@.number)))
             EXCEPT !.phase = "delivered"]]
    /\ UNCHANGED <<streamVars, listeners, events, requests, children>>

\* worker.on('error', reject)
WorkerError(k) ==
    /\ workers[k].phase = "threw"
    /\ workers' = [workers EXCEPT ![k] =
          [Settle(@, "rejected", Failure("Maximum call stack size exceeded"))
             EXCEPT !.phase = "errored"]]
    /\ UNCHANGED <<streamVars, listeners, events, requests, children>>

\* worker.on('exit', code => { if (code !== 0) reject(...) }): the worker
\* exits with 0 after its script has run, with 1 after an uncaught error.
WorkerExit(k) ==
    /\ workers[k].phase \in {"delivered", "errored"}
    /\ workers' = [workers EXCEPT ![k] =
          [(IF @.phase = "errored"
            THEN Settle(@, "rejected", Failure("Worker stopped with exit code 1"))
            ELSE @)
             EXCEPT !.phase = "exited", !.code = IF workers[k].phase = "errored" THEN 1 ELSE 0]]
    /\ UNCHANGED <<streamVars, listeners, events, requests, children>>

InitPool ==
    /\ input = <<>>
    /\ failAt = 0
    /\ prev = <<>>
    /\ ServerIdle
    /\ UpStarted
    /\ ManualIdle

NextPool ==
    \/ \E q \in Queries : Threadpool(q)
    \/ \E k \in 1..Len(workers) : WorkerRun(k)
    \/ \E k \in 1..Len(workers) : WorkerMessage(k)
    \/ \E k \in 1..Len(workers) : WorkerError(k)
    \/ \E k \in 1..Len(workers) : WorkerExit(k)

SpecPool == InitPool /\ [][NextPool]_vars

\* --------------------------------------------------------- forkNodeScript

\* What a promise of forkNodeScript settles with: the n-th message of the
\* child (the messages are told apart by their number), or an error.
Sent(n) == [kind |-> "message", n |-> n, text |-> ""]
Raised(t) == [kind |-> "error", n |-> 0, text |-> t]

\* The code of an 'exit' event: <<>> is null (the child was ended by a
\* signal), <<0>> a normal end, <<1>> a failure.
ExitCodes == {<<>>, <<0>>, <<1>>}

\* forkNodeScript(scriptPath, args, message): the child is forked and the
\* listeners registered.  The script is the caller's, so what the child
\* does next is open: it may send messages, fail, or exit with any code.
Fork ==
    /\ Len(children) < MaxChildren
    /\ children' = Append(children, [state |-> "running", killed |-> FALSE,
                                     got |-> 0, code |-> <<>>, failed |-> FALSE,
                                     promise |-> "pending", value |-> <<>>])
    /\ UNCHANGED <<streamVars, listeners, events, requests, workers>>

\* child.on('message', msg => { resolve(msg); child.kill(); })
ChildMessage(k) ==
    /\ children[k].state = "running"
    /\ children[k].got < MaxMessages
    /\ children' = [children EXCEPT ![k] =
          [Settle(@, "resolved", Sent(@.got + 1))
             EXCEPT !.got = @ + 1, !.killed = TRUE]]
    /\ UNCHANGED <<streamVars, listeners, events, requests, workers>>

\* child.on('error', reject): the child could not be spawned, killed or
\* sent a message.
ChildError(k) ==
    /\ children[k].state = "running"
    /\ ~children[k].failed
    /\ children' = [children EXCEPT ![k] =
          [Settle(@, "rejected", Raised("child process error"))
             EXCEPT !.failed = TRUE]]
    /\ UNCHANGED <<streamVars, listeners, events, requests, workers>>

\* child.on('exit', code => { if (code !== 0) reject(new Error(...)) });
\* a null code needs a signal, the one of child.kill().
ChildExit(k, code) ==
    /\ children[k].state = "running"
    /\ code = <<>> => children[k].killed
    /\ children' = [children EXCEPT ![k] =
          [(IF code # <<0>>
            THEN Settle(@, "rejected", Raised("Child exited with code"))
            ELSE @)
             EXCEPT !.state = "exited", !.code = code]]
    /\ UNCHANGED <<streamVars, listeners, events, requests, workers>>

InitFork ==
    /\ input = <<>>
    /\ failAt = 0
    /\ prev = <<>>
    /\ ServerIdle
    /\ UpStarted
    /\ ManualIdle

NextFork ==
    \/ Fork
    \/ \E k \in 1..Len(children) : ChildMessage(k)
    \/ \E k \in 1..Len(children) : ChildError(k)
    \/ \E k \in 1..Len(children), code \in ExitCodes : ChildExit(k, code)

SpecFork == InitFork /\ [][NextFork]_vars

\* ------------------------------------------------------------ two calls

\* The inputs of the two-call runs: a one-byte and a three-byte character.
AgainAlphabet == {"a", "R"}

AgainInputs == StringsOver(AgainAlphabet, MaxLenAgain)

\* What is kept of a resolved call: its input's length in characters and
\* in bytes, and the pauses it resolved with.
Summary(s, v) == [len |-> Len(s), bytes |-> ByteLen(Encode(s)), pauses |-> v.pauses]

\* POST /pipe/backpressure once more: a second call of manualBackpressure
\* with the same chunk size, after the first one has resolved.
CallAgain ==
    /\ promise = "resolved"
    /\ prev = <<>>
    /\ prev' = <<Summary(input, settled[1])>>
    /\ input' \in AgainInputs
    /\ pc' = "idle"
    /\ i' = 0
    /\ ticks' = <<"resume_">>
    /\ rbuf' = <<>>
    /\ rEnded' = FALSE
    /\ flowing' = TRUE
    /\ resumeScheduled' = TRUE
    /\ emittedReadable' = FALSE
    /\ endEmitted' = FALSE
    /\ wlen' = 0
    /\ needDrain' = FALSE
    /\ inflight' = <<>>
    /\ wbuffered' = <<>>
    /\ ending' = FALSE
    /\ finished' = FALSE
    /\ destroyed' = FALSE
    /\ errorEmitted' = FALSE
    /\ drainListeners' = 0
    /\ completed' = 0
    /\ result' = <<>>
    /\ pauses' = 0
    /\ canContinue' = <<>>
    /\ offered' = <<>>
    /\ promise' = "pending"
    /\ settled' = <<>>
    /\ UNCHANGED <<reqChunk, chunkSize, failAt, serverVars>>

InitAgain == InitOn(AgainInputs, {<<n>> : n \in 1..MaxChunk}, {0})

NextAgain == Next \/ CallAgain

SpecAgain == InitAgain /\ [][NextAgain]_vars

\* ------------------------------------------------------------ properties

\* Chunks handed to writable.write whose write callback has not run yet.
PendingChunks == Len(offered) - completed

\* Their bytes: the chunk being written and the queued ones.
PendingBytes == SumBytes(inflight) + SumBytes(wbuffered)

\* One call of writable.write.
WriteCalled == Len(offered') = Len(offered) + 1

\* C1: for every input and every chunk size >= 1 the resolved output is
\* exactly the input.
C1_RoundTrip ==
    (promise = "resolved" /\ chunkSize >= 1) => settled[1].output = input

\* C2: at every moment of a run with chunk size >= 1 the accumulated
\* result is a prefix of the input.
C2_ResultIsPrefix == chunkSize >= 1 => IsPrefix(result, input)

\* C3: while a write that returned false waits for its 'drain' no chunk is
\* offered, and the readable goes from paused to flowing only in the step
\* that emits that 'drain'.
C3_NoOfferUntilDrain ==
    [][/\ drainListeners > 0 => offered' = offered
       /\ (~flowing /\ flowing') => (drainListeners > 0 /\ drainListeners' = 0)]_vars

\* C3 witness: production has resumed after a pause with chunks left.
C3_Resumed == pauses >= 1 /\ flowing /\ rbuf # <<>> /\ pc = "flowR"

\* C4: with chunk size >= 1, the chunks handed to the consumer and not
\* yet appended never number more than 2.
C4_PendingWithinMark == chunkSize >= 1 => PendingChunks <= 2

\* C4 witness: two chunks are pending.
C4_TwoPending == chunkSize >= 1 /\ PendingChunks = 2 /\ Len(wbuffered) = 1

C6_ErrorRejects ==
    /\ destroyed => promise # "resolved"
    /\ errorEmitted => promise = "rejected"

\* C6 witness: the consumer failed on the second chunk and the run rejected.
C6_RejectedOnSecond ==
    failAt = 2 /\ completed >= 2 /\ errorEmitted /\ promise = "rejected"

\* C7: after the consumer has failed, writable.write is not called again.
C7_NoOfferAfterError == [][destroyed => offered' = offered]_vars

\* C7 witness: the consumer has failed while chunks were still unoffered.
C7_FailedWithChunksLeft == destroyed /\ rbuf # <<>> /\ errorEmitted

\* C8: when the promise is resolved, 'end' has been emitted and end()
\* called, every chunk was offered and appended, and the value resolved
\* with is the current result and pauses, so neither changes afterwards.
C8_ResolvedAtTheEnd ==
    promise = "resolved" =>
        /\ endEmitted /\ ending /\ rEnded /\ rbuf = <<>>
        /\ PendingChunks = 0 /\ inflight = <<>> /\ wbuffered = <<>>
        /\ result = Decode(Flatten(offered))
        /\ settled = <<[output |-> result, pauses |-> pauses]>>

\* C8 witness: a run of several chunks with a pause has resolved.
C8_ResolvedAfterPause ==
    promise = "resolved" /\ Len(offered) >= 2 /\ pauses >= 1 /\ chunkSize >= 1

\* C9: with the chunk size undefined or not positive the run uses chunk
\* size 2, so each iteration of the loop in read() moves the cursor by 2.
C9_DefaultsToTwo ==
    [][((reqChunk = <<>> \/ reqChunk[1] <= 0) /\ pc = "read" /\ pc' = "read")
         => i' = i + DefaultChunkSize]_vars

CeilDiv(n, c) == (n + c - 1) \div c

\* C11: a run with chunk size >= 1 on an input cut into more than 2 chunks
\* resolves with pauses >= 1.
C11_PausesWhenLong ==
    (promise = "resolved" /\ chunkSize >= 1 /\ CeilDiv(Len(input), chunkSize) > 2)
        => settled[1].pauses >= 1

\* C11 witness: a run of more than 2 chunks has resolved.
C11_LongResolved ==
    promise = "resolved" /\ chunkSize >= 1 /\ Len(offered) > 2 /\ settled[1].pauses >= 1

\* C13: pauses goes up by one in a step that calls write and gets false,
\* and changes in no other step; the promise resolves with that counter.
C13_PauseCountsNotReady ==
    [][/\ pauses' = IF WriteCalled /\ canContinue' = <<FALSE>> THEN pauses + 1 ELSE pauses
       /\ promise' = "resolved" => settled'[1].pauses = pauses']_vars

\* C13 witness: a resolved run in which some writes returned true and some false.
C13_MixedWrites ==
    promise = "resolved" /\ settled[1].pauses >= 1 /\ Len(offered) > settled[1].pauses

\* C14: on the empty input no chunk is offered, the run resolves with
\* output "" and pauses 0, and it does not stop before it has resolved.
C14_EmptyInput ==
    input = <<>> =>
        /\ offered = <<>>
        /\ promise = "resolved" => settled = <<[output |-> <<>>, pauses |-> 0]>>
        /\ promise = "resolved" \/ ENABLED Next

\* C14 witness: the run on the empty input has resolved.
C14_EmptyResolved == input = <<>> /\ promise = "resolved" /\ finished

\* C15: with chunk size c >= 1 the k-th chunk offered is the k-th run of c
\* characters of the input (the last one what is left, at least one
\* character), at most ceil(n / c) chunks are offered, one per step, and
\* all of them before the run resolves.
C15_ChunksInOrder ==
    chunkSize >= 1 =>
        LET n == Len(input)
            c == chunkSize
        IN  /\ Len(offered) <= CeilDiv(n, c)
            /\ promise = "resolved" => Len(offered) = CeilDiv(n, c)
            /\ \A k \in 1..Len(offered) :
                 /\ offered[k] = Encode(SubSeq(input, (k - 1) * c + 1, Min(k * c, n)))
                 /\ Len(Decode(offered[k])) = IF k * c <= n THEN c ELSE n - (k - 1) * c
                 /\ Len(Decode(offered[k])) >= 1

\* C15 witness: a run whose last chunk is shorter than the others has resolved.
C15_ShortLastChunk ==
    /\ promise = "resolved" /\ chunkSize >= 2 /\ Len(offered) >= 2
    /\ Len(Decode(offered[Len(offered)])) < chunkSize

OneByteEach(r) == r.bytes = r.len

WellFormed(s) == Decode(Encode(s)) = s

\* A call of pipeToUppercase has a step left: the source has yet to yield
\* its string (SourceData, whose only guard that is), or a later step is enabled.
UpStepLeft == pc = "from" \/ ENABLED (SourceEnd \/ TransformData \/ TransformEnd \/ UpFinish)

\* C16 as stated: pipeToUppercase resolves with the upper-case mapping of
\* its input, of the same length.
C16_UpperSameLength ==
    promise = "resolved" => settled[1] = ToUpper(input) /\ Len(settled[1]) = Len(input)

\* C16: pipeToUppercase resolves, and with the upper-case mapping of its
\* input as UTF-8 gives it back: of the input itself when it has no unpaired
\* surrogate; the result is never shorter than the input and has its length
\* when no character has a longer upper case.
C16_UpperOfRoundTrip ==
    /\ promise = "resolved" =>
         /\ settled[1] = ToUpper(Decode(Encode(input)))
         /\ WellFormed(input) => settled[1] = ToUpper(input)
         /\ Len(settled[1]) >= Len(input)
         /\ (\A k \in 1..Len(input) : input[k] # "sz") => Len(settled[1]) = Len(input)
    /\ promise = "resolved" \/ UpStepLeft

\* C16 witness: a call on lower-case letters and U+00DF has resolved.
C16_LongerUpper ==
    /\ promise = "resolved" /\ prev = <<>>
    /\ \E k \in 1..Len(input) : input[k] = "a"
    /\ \E k \in 1..Len(input) : input[k] = "sz"
    /\ Len(settled[1]) > Len(input)

\* C17: pipeToUppercase on the result of a call resolves with that result.
C17_Idempotent ==
    (prev # <<>> /\ promise = "resolved") =>
        /\ input = prev[1].output
        /\ settled[1] = prev[1].output

\* C17 witness: the second call has resolved, after a first call that
\* changed its input.
C17_SecondResolved ==
    /\ prev # <<>> /\ promise = "resolved"
    /\ prev[1].output # prev[1].input

\* C18 as stated: once the transform has failed, the promise is rejected or
\* the run has a step left that leads there.
C18_TransformFailureRejects ==
    destroyed => (promise = "rejected" \/ ENABLED NextUpFail)

\* The payloads of the 'fileUploaded' events among events[from..to].
RECURSIVE UploadsIn(_, _)
UploadsIn(from, to) ==
    IF from > to THEN <<>>
    ELSE (IF events[from].event = "fileUploaded" THEN <<events[from].payload>> ELSE <<>>)
         \o UploadsIn(from + 1, to)

UploadsBefore(r) == UploadsIn(1, requests[r].at)
UploadsSince(r) == UploadsIn(requests[r].at + 1, Len(events))

\* C19 as stated: a GET /notify-upload that arrived after an upload has been
\* answered with the name of that (the latest earlier) upload.
C19_NotifyNamesEarlierUpload ==
    \A r \in 1..Len(requests) :
        (requests[r].route = "notify" /\ UploadsBefore(r) # <<>>) =>
            requests[r].sent =
                <<Body("message", UploadsBefore(r)[Len(UploadsBefore(r))])>>

\* C20: a once-callback is called with the first matching event emitted
\* after its registration and with no other: a GET /notify-upload has sent
\* nothing while no upload came after it, and after that exactly one
\* response, naming the first such upload; it is registered exactly while
\* it waits; a GET /event has sent its own 'pong!' once, and no ping
\* listener stays behind.
C20_DeliveredOnce ==
    /\ listeners.ping = <<>>
    /\ \A r \in 1..Len(requests) :
         /\ requests[r].route = "notify" =>
              /\ requests[r].sent =
                   IF UploadsSince(r) = <<>> THEN <<>>
                   ELSE <<Body("message", UploadsSince(r)[1])>>
              /\ r \in Range(listeners.fileUploaded) <=> UploadsSince(r) = <<>>
         /\ requests[r].route = "event" => requests[r].sent = <<Body("ping", "pong!")>>

\* C20 witness: a GET /notify-upload was followed by two uploads of
\* different files and has answered once, with the first one.
C20_AnsweredWithFirst ==
    \E r \in 1..Len(requests) :
        /\ requests[r].route = "notify"
        /\ Len(UploadsSince(r)) >= 2
        /\ UploadsSince(r)[1] # UploadsSince(r)[2]
        /\ requests[r].sent = <<Body("message", UploadsSince(r)[1])>>

\* The requests to GET /event.
EventRequests == {r \in 1..Len(requests) : requests[r].route = "event"}

\* C21: every GET /event has sent exactly one response, 'pong!', which is
\* the event its own handler emitted right after it arrived; there are as
\* many 'ping' events as such requests, and no 'ping' listener is left.
C21_EachPingAnsweredOnce ==
    /\ listeners.ping = <<>>
    /\ \A r \in EventRequests :
         /\ Len(requests[r].sent) = 1
         /\ requests[r].sent[1] = Body("ping", "pong!")
         /\ events[requests[r].at + 1] = [event |-> "ping", payload |-> "pong!"]
    /\ Cardinality(EventRequests) =
         Cardinality({k \in 1..Len(events) : events[k].event = "ping"})

\* C21 witness: GET /event was served three times, with another request in
\* between.
C21_ThreePings ==
    /\ Cardinality(EventRequests) >= 3
    /\ \E r \in 1..Len(requests) : requests[r].route = "notify" /\ r > 1 /\ r < Len(requests)

\* A call of streamExample has a step left: the source has a string to
\* yield (the guard of StreamData), or a later step is enabled.
StreamStepLeft ==
    \/ pc = "from" /\ i < Len(StreamSource)
    \/ ENABLED (StreamSourceEnd \/ StreamWrite \/ StreamTransformEnd \/ StreamFinish)

\* C22: streamExample resolves with "NODEJS STREAMS", and only when the
\* source has yielded all its chunks and each went through the transform
\* and was appended to the result, in order; the run does not stop before.
C22_NodejsStreams ==
    /\ promise = "resolved" =>
         /\ settled[1] = <<"N", "O", "D", "E", "J", "S", " ", "S", "T", "R", "E", "A", "M", "S">>
         /\ i = Len(StreamSource) /\ rbuf = <<>> /\ rEnded
         /\ result = settled[1]
    /\ result \o Decode(Flatten(rbuf)) = ToUpper(Flatten(SubSeq(StreamSource, 1, i)))
    /\ promise = "resolved" \/ StreamStepLeft

\* C22 witness: a call, not the first one, has resolved.
C22_StreamResolved == promise = "resolved" /\ Len(prev) >= 1 /\ finished

\* C23: a promise of runInThreadPool is pending only while its worker has
\* reported nothing; once the worker's message has arrived it is resolved
\* with that message, once the worker's error has arrived it is rejected
\* with that error, and the exit that follows changes neither; no promise
\* is pending after its worker has exited.
C23_SettledByWorker ==
    \A k \in 1..Len(workers) :
        LET w == workers[k]
        IN  /\ w.promise = "pending" <=> w.phase \in {"started", "posted", "threw"}
            /\ (w.phase = "delivered" \/ (w.phase = "exited" /\ w.code = 0)) =>
                 /\ w.promise = "resolved"
                 /\ w.value = <<Message(w.number, compute(w.number))>>
            /\ (w.phase = "errored" \/ (w.phase = "exited" /\ w.code # 0)) =>
                 /\ w.promise = "rejected"
                 /\ w.value = <<Failure("Maximum call stack size exceeded")>>

\* C23 witness: one worker has posted its result and exited with 0, another
\* has thrown and exited with 1.
C23_BothEndings ==
    /\ \E k \in 1..Len(workers) :
         workers[k].phase = "exited" /\ workers[k].code = 0 /\ workers[k].promise = "resolved"
    /\ \E k \in 1..Len(workers) :
         workers[k].phase = "exited" /\ workers[k].code = 1 /\ workers[k].promise = "rejected"

\* n! for n >= 0.
RECURSIVE Factorial(_)
Factorial(n) == IF n = 0 THEN 1 ELSE n * Factorial(n - 1)

\* C24 as stated: a request with a non-negative integer N runs the worker on
\* N, and its promise, once settled, is resolved with {input: N, result: N!}.
C24_FactorialOfQuery ==
    \A k \in 1..Len(workers) :
        LET w == workers[k]
        IN  (w.query.kind = "int" /\ w.query.n >= 0) =>
                /\ w.number = w.query.n
                /\ w.promise # "pending" =>
                     /\ w.promise = "resolved"
                     /\ w.value = <<Message(w.query.n, Factorial(w.query.n))>>

\* C28: a promise of forkNodeScript resolved with the child's first message
\* stays resolved with it in every later step: the kill, a later message, an
\* error, an exit with any code.
C28_FirstMessageStays ==
    [][\A k \in 1..Len(children) :
         children[k].promise = "resolved" =>
             /\ children'[k].promise = "resolved"
             /\ children'[k].value = children[k].value
             /\ children[k].value = <<Sent(1)>>
             /\ children[k].got >= 1 /\ children[k].killed]_vars

\* C28 witness: a child sent two messages, failed and ended by the signal
\* of kill, and its promise is resolved with the first message.
C28_ResolvedThenKilled ==
    \E k \in 1..Len(children) :
        /\ children[k].state = "exited" /\ children[k].code = <<>>
        /\ children[k].got = 2
        /\ children[k].failed
        /\ children[k].promise = "resolved"
        /\ children[k].value = <<Sent(1)>>

\* C29 as stated: after its child has exited, a promise of forkNodeScript
\* is settled.
C29_SettledAfterExit ==
    \A k \in 1..Len(children) :
        children[k].state = "exited" => children[k].promise # "pending"

\* C25 as stated: every pause is followed by a 'drain' and a resume.
C25_EveryPauseDrained == (drainListeners > 0) ~> (drainListeners = 0 /\ flowing)

\* C25: with a chunk size of at least 1 the run resolves in the end, and a
\* pause that leaves chunks in the readable's buffer is followed by a
\* 'drain' and a resume.  (A pause at the last chunk is followed by 'end'
\* and 'finish' instead.)
C25_ResolvesInTheEnd ==
    /\ <>(promise = "resolved")
    /\ (drainListeners > 0 /\ rbuf # <<>>) ~> (drainListeners = 0 /\ flowing)

\* C25 witness: a run has resolved whose last write signalled not-ready,
\* after an earlier pause and resume.
C25_ResolvedWhilePaused ==
    /\ promise = "resolved" /\ canContinue = <<FALSE>> /\ ~flowing
    /\ settled[1].pauses >= 2

\* C26 as stated: there is at most one 'drain' listener at any time, and
\* none when the run has resolved.
C26_NoListenerLeft ==
    /\ drainListeners <= 1
    /\ promise = "resolved" => drainListeners = 0

\* The 'drain' listeners that have fired; each one resumes the readable.
Resumes == pauses - drainListeners

\* C26: there is at most one 'drain' listener at any time; when the run has
\* resolved, one is left exactly if the last write signalled not-ready, and
\* the resumes are the pauses but that one.
C26_ListenerLeftAfterLastPause ==
    /\ drainListeners <= 1
    /\ drainListeners = 1 => ~flowing
    /\ promise = "resolved" =>
         /\ drainListeners = IF canContinue = <<FALSE>> THEN 1 ELSE 0
         /\ Resumes = IF canContinue = <<FALSE>> THEN pauses - 1 ELSE pauses

\* C26 witness: a run with a resume has resolved with a listener left.
C26_ResolvedWithListener ==
    promise = "resolved" /\ drainListeners = 1 /\ Resumes >= 1

\* C27 as stated: writable.end() is called only when the readable has
\* ended and every chunk it buffered has been offered, nothing is in the
\* middle of being offered then, and every run gets there: while end() has
\* not been called the run has a step left that changes its state.
C27_EndAfterAllChunks ==
    /\ ending => (endEmitted /\ rEnded /\ rbuf = <<>> /\ pc = "idle")
    /\ (ending /\ chunkSize >= 1) => Len(offered) = CeilDiv(Len(input), chunkSize)
    /\ ending \/ ENABLED <<Next>>_vars

====
